---- MODULE Spec2Model ----
(***************************************************************************)
(* Model of AudioPermutationPipeline (audio_permutation_pipeline/main.py): *)
(* the two entry points process and apply_overlay, step by step, and the   *)
(* numerical helpers _apply_reverb and _overlay_audio.                     *)
(*                                                                         *)
(* Numbers.  Samples are integers (amplitude 1.0 is the integer 1).        *)
(* Fractional parameters (room size, speed factor, overlay volume) are     *)
(* numerators over Den: the value k stands for k / Den.  A buffer that has *)
(* been divided is a record [num, den]: sample i is num[i] / den, so       *)
(* den = 0 is numpy's division by zero (0/0 = NaN, x/0 = +-Inf).           *)
(* An optional argument is <<>> (None) or <<v>>.                           *)
(***************************************************************************)
EXTENDS Integers, Sequences, FiniteSets, TLC

\* ---------------------------------------------------------------- bounds
\* longest buffer librosa.load returns here
MaxLen == 3
\* resolution of the fractional arguments: k stands for k / Den
Den == 4

\* wet_dry = 0.3, the default of _apply_reverb, in tenths
WetTenths == 3

SampleValues == {-1, 0, 1}
\* decay * randn * 0.1 is an arbitrary real; two signs are enough here
ImpulseValues == {-1, 1}
\* the rate enters only through ir_length = int(room_size * 2.0 * sr)
SampleRates == {1, 2}

BuffersOfLen(n) == [1..n -> SampleValues]
Buffers == UNION {BuffersOfLen(n) : n \in 0..MaxLen}

\* ------------------------------------------------------------ arithmetic
None == <<>>
Some(v) == <<v>>
IsNone(p) == p = None
Val(p) == p[1]

Abs(x) == IF x < 0 THEN -x ELSE x
Min(a, b) == IF a < b THEN a ELSE b
SetMax(S) == CHOOSE m \in S : \A x \in S : x <= m

\* np.max(np.abs(buf)) of a non-empty buffer
PeakAbs(buf) == SetMax({Abs(buf[i]) : i \in 1..Len(buf)})

\* s[:n]
Prefix(s, n) == SubSeq(s, 1, Min(n, Len(s)))

\* int(np.ceil(a / b)) for a >= 0, b > 0
CeilDiv(a, b) == (a + b - 1) \div b

\* int(x) of the quotient a / b, b > 0: truncation toward zero
IntTrunc(a, b) == IF a >= 0 THEN a \div b ELSE -((-a) \div b)

\* ------------------------------------------------------- _overlay_audio
\* num_repeats = int(np.ceil(original_length / overlay_length))
NumRepeatsFloor(original_length, overlay_length) ==
    original_length \div overlay_length

NumRepeats(original_length, overlay_length) ==
    CeilDiv(original_length, overlay_length)

\* np.tile(s, n)
RECURSIVE Tile(_, _)
Tile(s, n) == IF n <= 0 THEN <<>> ELSE s \o Tile(s, n - 1)

\* The length handling: the looped or trimmed overlay, or the exception
\* of the division by a zero overlay length.
ReconcileLengthNoTrim(overlay_data, original_length) ==
    LET overlay_length == Len(overlay_data) IN
    IF overlay_length < original_length
    THEN IF overlay_length = 0
         THEN [raised |-> "ZeroDivisionError", buf |-> <<>>]
         ELSE [raised |-> "none",
               buf |-> Prefix(Tile(overlay_data,
                                   NumRepeats(original_length, overlay_length)),
                              original_length)]
    ELSE [raised |-> "none", buf |-> overlay_data]

ReconcileLength(overlay_data, original_length) ==
    LET overlay_length == Len(overlay_data) IN
    IF overlay_length < original_length
    THEN IF overlay_length = 0
         THEN [raised |-> "ZeroDivisionError", buf |-> <<>>]
         ELSE [raised |-> "none",
               buf |-> Prefix(Tile(overlay_data,
                                   NumRepeats(original_length, overlay_length)),
                              original_length)]
    ELSE IF overlay_length > original_length
         THEN [raised |-> "none", buf |-> Prefix(overlay_data, original_length)]
         ELSE [raised |-> "none", buf |-> overlay_data]

\* numpy's shape of a + b for one-dimensional a, b
Broadcastable(la, lb) == la = lb \/ la = 1 \/ lb = 1
BroadcastLen(la, lb) == IF la = lb THEN la ELSE IF la = 1 THEN lb ELSE la
Pick(a, i) == IF Len(a) = 1 THEN a[1] ELSE a[i]

\* mixed = data + overlay_data * volume_ratio, as numerators over Den
ScaleAndMix(data, overlay_data, volume_ratio) ==
    IF Broadcastable(Len(data), Len(overlay_data))
    THEN [raised |-> "none",
          num |-> [i \in 1..BroadcastLen(Len(data), Len(overlay_data)) |->
                     Pick(data, i) * Den + Pick(overlay_data, i) * volume_ratio]]
    ELSE [raised |-> "ValueError", num |-> <<>>]

\* max_val = np.max(np.abs(mixed)); if max_val > 1.0: mixed = mixed / max_val
ClipNormalizeAlways(mixed) ==
    IF Len(mixed) = 0
    THEN [raised |-> "ValueError", num |-> <<>>, den |-> Den]
    ELSE [raised |-> "none", num |-> mixed, den |-> PeakAbs(mixed)]

ClipNormalize(mixed) ==
    IF Len(mixed) = 0
    THEN [raised |-> "ValueError", num |-> <<>>, den |-> Den]
    ELSE LET max_val == PeakAbs(mixed) IN
         IF max_val > Den
         THEN [raised |-> "none", num |-> mixed, den |-> max_val]
         ELSE [raised |-> "none", num |-> mixed, den |-> Den]

\* -------------------------------------------------------- _apply_reverb
\* ir_length = int(room_size * 2.0 * sr)
IrLength(room_size, sr) == IntTrunc(room_size * 2 * sr, Den)

\* sum over i of in1[i] * in2[k - i + 1]
RECURSIVE ConvSum(_, _, _, _)
ConvSum(in1, in2, k, i) ==
    IF i > Len(in1) THEN 0
    ELSE (IF k - i + 1 >= 1 /\ k - i + 1 <= Len(in2)
          THEN in1[i] * in2[k - i + 1] ELSE 0)
         + ConvSum(in1, in2, k, i + 1)

\* the full linear convolution, Len(in1) + Len(in2) - 1 samples
FullConv(in1, in2) ==
    [k \in 1..(Len(in1) + Len(in2) - 1) |-> ConvSum(in1, in2, k, 1)]

\* scipy's _centered(arr, newshape): the middle newlen samples
Centered(arr, newlen) ==
    LET startind == (Len(arr) - newlen) \div 2 IN
    [i \in 1..newlen |-> arr[startind + i]]

\* fftconvolve(in1, in2, mode='same'): empty when either input is empty,
\* else the full convolution centered on the length of in1
FftConvolveFull(in1, in2) ==
    IF Len(in1) = 0 \/ Len(in2) = 0 THEN <<>> ELSE FullConv(in1, in2)

FftConvolveSame(in1, in2) ==
    IF Len(in1) = 0 \/ Len(in2) = 0 THEN <<>>
    ELSE Centered(FullConv(in1, in2), Len(in1))

\* output = (1 - wet_dry) * data + wet_dry * reverb_signal, in tenths
MixDryWet(data, reverb_signal) ==
    IF Broadcastable(Len(data), Len(reverb_signal))
    THEN [raised |-> "none",
          num |-> [i \in 1..BroadcastLen(Len(data), Len(reverb_signal)) |->
                     (10 - WetTenths) * Pick(data, i)
                     + WetTenths * Pick(reverb_signal, i)]]
    ELSE [raised |-> "ValueError", num |-> <<>>]

\* output = output / np.max(np.abs(output)): np.max raises on an empty
\* array; a zero peak is divided by all the same
PeakNormalize(output) ==
    IF Len(output) = 0
    THEN [raised |-> "ValueError", num |-> <<>>, den |-> 1]
    ELSE [raised |-> "none", num |-> output, den |-> PeakAbs(output)]

\* _apply_reverb with the random impulse of this call given (its length is
\* ir_length; np.linspace raises for a negative ir_length)
ApplyReverb(data, sr, room_size, impulse) ==
    IF IrLength(room_size, sr) < 0
    THEN [raised |-> "ValueError", num |-> <<>>, den |-> 1]
    ELSE LET reverb_signal == FftConvolveSame(data, impulse)
             mix == MixDryWet(data, reverb_signal) IN
         IF mix.raised # "none"
         THEN [raised |-> mix.raised, num |-> <<>>, den |-> 1]
         ELSE PeakNormalize(mix.num)

\* the impulses np.random.randn can give for this room and rate
Impulses(room_size, sr) ==
    IF IrLength(room_size, sr) < 0 THEN {<<>>}
    ELSE [1..IrLength(room_size, sr) -> ImpulseValues]

\* a returned buffer holds NaN or Inf
NonFinite(buf) == Len(buf.num) > 0 /\ buf.den = 0

\* ------------------------------------------------------------- state
VARIABLES
    pc,            \* position inside process / apply_overlay
    req,           \* the arguments of the call, and which files exist
    printed,       \* "not_found" after an Error: ... not found. line
    raised,        \* the exception that left the call, or "none"
    raised_at,     \* the assert or the step that raised it
    subdir,        \* output_subdir exists
    copied,        \* the copy of the input file exists in output_subdir
    loaded,        \* librosa.load(input_path) has returned
    input_audio,   \* the samples librosa.load returned for the input file
    data,          \* the local data of process / apply_overlay
    sr,            \* the local sr
    impulse,       \* the local impulse of _apply_reverb, once built
    impulse_built, \* line 65 of _apply_reverb has run
    overlay_file,  \* the samples librosa.load returned for the overlay file
    overlay_data,  \* the local overlay_data of _overlay_audio
    mixed,         \* the local mixed of _overlay_audio, numerators over Den
    overlaid,      \* the value _overlay_audio returned, [num, den]
    saved          \* artifact name -> what was handed to _save_as_mp3

vars == <<pc, req, printed, raised, raised_at, subdir, copied, loaded,
          input_audio, data, sr, impulse, impulse_built, overlay_file,
          overlay_data, mixed, overlaid, saved>>

fsVars == <<subdir, copied, saved>>
audioVars == <<loaded, input_audio, data, sr>>
reverbVars == <<impulse, impulse_built>>
overlayVars == <<overlay_file, overlay_data, mixed, overlaid>>
errVars == <<printed, raised, raised_at>>

\* ------------------------------------------------------- the arguments
PitchIncreaseArgs == {None, Some(4), Some(0), Some(-2)}
PitchDecreaseArgs == {None, Some(-4), Some(0), Some(2)}
SpeedIncreaseArgs == {None, Some(Den + 1), Some(Den)}
SpeedDecreaseArgs == {None, Some(1), Some(0), Some(Den), Some(Den + 2)}
RoomSizeArgs == {None} \cup {Some(k) : k \in -1..(Den + 1)}
VolumeArgs == {0, Den \div 2, Den, Den + 1}

NoRequest ==
    [op |-> "none", input_exists |-> FALSE, overlay_exists |-> FALSE,
     pitch_increase |-> None, pitch_decrease |-> None,
     speed_increase |-> None, speed_decrease |-> None,
     reverb_room_size |-> None, overlay_volume |-> 0]

\* `if x:` of an optional number
Truthy(p) == ~IsNone(p) /\ Val(p) # 0

\* the five asserts of process, in their order
PitchIncreaseOkLax(p) == IsNone(p) \/ Val(p) >= 0
PitchIncreaseOk(p) == IsNone(p) \/ Val(p) > 0
PitchDecreaseOk(p) == IsNone(p) \/ Val(p) < 0
SpeedIncreaseOk(p) == IsNone(p) \/ Val(p) > Den
SpeedDecreaseOk(p) == IsNone(p) \/ (0 < Val(p) /\ Val(p) < Den)
ReverbRoomSizeOk(p) == IsNone(p) \/ (0 < Val(p) /\ Val(p) <= Den)

FirstFailedAssert(r) ==
    IF ~PitchIncreaseOk(r.pitch_increase) THEN "pitch_increase"
    ELSE IF ~PitchDecreaseOk(r.pitch_decrease) THEN "pitch_decrease"
    ELSE IF ~SpeedIncreaseOk(r.speed_increase) THEN "speed_increase"
    ELSE IF ~SpeedDecreaseOk(r.speed_decrease) THEN "speed_decrease"
    ELSE IF ~ReverbRoomSizeOk(r.reverb_room_size) THEN "reverb_room_size"
    ELSE "none"

\* os.path.exists(input_path) as process and apply_overlay test it
InputFoundAlways(r) == TRUE
InputFound(r) == r.input_exists
OverlayFound(r) == r.overlay_exists

\* The transforms build new arrays: the caller's data is what it was.
DataAfterInPlace(d) == [i \in 1..Len(d) |-> 0]
DataAfter(d) == d

Init ==
    /\ pc = "idle"
    /\ req = NoRequest
    /\ printed = "none"
    /\ raised = "none"
    /\ raised_at = "none"
    /\ subdir = FALSE
    /\ copied = FALSE
    /\ loaded = FALSE
    /\ input_audio = <<>>
    /\ data = <<>>
    /\ sr = 0
    /\ impulse = <<>>
    /\ impulse_built = FALSE
    /\ overlay_file = <<>>
    /\ overlay_data = <<>>
    /\ mixed = <<>>
    /\ overlaid = [num |-> <<>>, den |-> 1]
    /\ saved = <<>>

Raise(exc, at) ==
    /\ raised' = exc
    /\ raised_at' = at
    /\ pc' = "done"
    /\ UNCHANGED printed

\* ------------------------------------------------------------ process
ProcessCall ==
    /\ pc = "idle"
    /\ \E ex \in BOOLEAN, pi \in PitchIncreaseArgs, pd \in PitchDecreaseArgs,
          si \in SpeedIncreaseArgs, sd \in SpeedDecreaseArgs,
          rr \in RoomSizeArgs :
          req' = [NoRequest EXCEPT !.op = "process", !.input_exists = ex,
                    !.pitch_increase = pi, !.pitch_decrease = pd,
                    !.speed_increase = si, !.speed_decrease = sd,
                    !.reverb_room_size = rr]
    /\ pc' = "p_exists"
    /\ UNCHANGED <<errVars, fsVars, audioVars, reverbVars, overlayVars>>

\* lines 147-149
ProcessCheckExists ==
    /\ pc = "p_exists"
    /\ IF ~InputFound(req)
       THEN /\ printed' = "not_found"
            /\ pc' = "done"
       ELSE /\ pc' = "p_validate"
            /\ UNCHANGED printed
    /\ UNCHANGED <<req, raised, raised_at, fsVars, audioVars, reverbVars,
                   overlayVars>>

\* lines 151-156
ProcessValidate ==
    /\ pc = "p_validate"
    /\ IF FirstFailedAssert(req) # "none"
       THEN Raise("AssertionError", FirstFailedAssert(req))
       ELSE /\ pc' = "p_mkdir"
            /\ UNCHANGED errVars
    /\ UNCHANGED <<req, fsVars, audioVars, reverbVars, overlayVars>>

\* lines 158-161
ProcessMkdir ==
    /\ pc = "p_mkdir"
    /\ subdir' = TRUE
    /\ pc' = "p_copy"
    /\ UNCHANGED <<req, errVars, copied, saved, audioVars, reverbVars,
                   overlayVars>>

\* lines 163-167
ProcessCopy ==
    /\ pc = "p_copy"
    /\ copied' = TRUE
    /\ pc' = "p_load"
    /\ UNCHANGED <<req, errVars, subdir, saved, audioVars, reverbVars,
                   overlayVars>>

\* lines 169-171
ProcessLoad ==
    /\ pc = "p_load"
    /\ \E d \in Buffers, r \in SampleRates :
          /\ input_audio' = d
          /\ data' = d
          /\ sr' = r
    /\ loaded' = TRUE
    /\ pc' = "p_pitch_up"
    /\ UNCHANGED <<req, errVars, fsVars, reverbVars, overlayVars>>

\* One `if param:` block that calls a librosa effect and saves its result.
\* The library call or the save can raise; the exception leaves process.
LibraryStep(here, next, name, fn, param) ==
    /\ pc = here
    /\ IF Truthy(param)
       THEN \E ok \in BOOLEAN :
              IF ok
              THEN /\ saved' = saved @@
                          (name :> [fn |-> fn, y |-> data, sr |-> sr,
                                    arg |-> Val(param)])
                   /\ data' = DataAfter(data)
                   /\ pc' = next
                   /\ UNCHANGED errVars
              ELSE /\ Raise("LibraryError", name)
                   /\ UNCHANGED <<saved, data>>
       ELSE /\ pc' = next
            /\ UNCHANGED <<errVars, saved, data>>
    /\ UNCHANGED <<req, subdir, copied, loaded, input_audio, sr, reverbVars,
                   overlayVars>>

\* lines 174-179
ProcessPitchUp ==
    LibraryStep("p_pitch_up", "p_pitch_down", "pitch_up", "pitch_shift",
                req.pitch_increase)

\* lines 181-186
ProcessPitchDown ==
    LibraryStep("p_pitch_down", "p_speed_up", "pitch_down", "pitch_shift",
                req.pitch_decrease)

\* lines 188-193
ProcessSpeedUp ==
    LibraryStep("p_speed_up", "p_speed_down", "speed_up", "time_stretch",
                req.speed_increase)

\* lines 195-200
ProcessSpeedDown ==
    LibraryStep("p_speed_down", "p_reverb", "speed_down", "time_stretch",
                req.speed_decrease)

\* lines 202-204 and 60-65: the reverb block up to the random impulse
ProcessReverbImpulse ==
    /\ pc = "p_reverb"
    /\ IF Truthy(req.reverb_room_size)
       THEN IF IrLength(Val(req.reverb_room_size), sr) < 0
            THEN /\ Raise("ValueError", "reverb")
                 /\ UNCHANGED reverbVars
            ELSE /\ \E imp \in Impulses(Val(req.reverb_room_size), sr) :
                       impulse' = imp
                 /\ impulse_built' = TRUE
                 /\ pc' = "p_convolve"
                 /\ UNCHANGED errVars
       ELSE /\ pc' = "done"
            /\ UNCHANGED <<errVars, reverbVars>>
    /\ UNCHANGED <<req, fsVars, audioVars, overlayVars>>

\* lines 67-71 and 205-207: convolve, mix, normalize, save
ProcessReverbConvolve ==
    /\ pc = "p_convolve"
    /\ LET out == ApplyReverb(data, sr, Val(req.reverb_room_size), impulse) IN
       IF out.raised # "none"
       THEN /\ Raise(out.raised, "reverb")
            /\ UNCHANGED <<saved, data>>
       ELSE /\ saved' = saved @@
                   ("reverb" :> [fn |-> "_apply_reverb", y |-> data,
                                 sr |-> sr, arg |-> Val(req.reverb_room_size),
                                 impulse |-> impulse,
                                 num |-> out.num, den |-> out.den])
            /\ data' = DataAfter(data)
            /\ pc' = "done"
            /\ UNCHANGED errVars
    /\ UNCHANGED <<req, subdir, copied, loaded, input_audio, sr, reverbVars,
                   overlayVars>>

Process ==
    \/ ProcessCall
    \/ ProcessCheckExists
    \/ ProcessValidate
    \/ ProcessMkdir
    \/ ProcessCopy
    \/ ProcessLoad
    \/ ProcessPitchUp
    \/ ProcessPitchDown
    \/ ProcessSpeedUp
    \/ ProcessSpeedDown
    \/ ProcessReverbImpulse
    \/ ProcessReverbConvolve

\* ------------------------------------------------------ apply_overlay
OverlayCall ==
    /\ pc = "idle"
    /\ \E ex \in BOOLEAN, ox \in BOOLEAN, v \in VolumeArgs :
          req' = [NoRequest EXCEPT !.op = "apply_overlay",
                    !.input_exists = ex, !.overlay_exists = ox,
                    !.overlay_volume = v]
    /\ pc' = "o_exists"
    /\ UNCHANGED <<errVars, fsVars, audioVars, reverbVars, overlayVars>>

\* lines 224-227
OverlayCheckOriginal ==
    /\ pc = "o_exists"
    /\ IF ~InputFound(req)
       THEN /\ printed' = "not_found"
            /\ pc' = "done"
       ELSE /\ pc' = "o_exists_overlay"
            /\ UNCHANGED printed
    /\ UNCHANGED <<req, raised, raised_at, fsVars, audioVars, reverbVars,
                   overlayVars>>

\* lines 229-232
OverlayCheckOverlay ==
    /\ pc = "o_exists_overlay"
    /\ IF ~OverlayFound(req)
       THEN /\ printed' = "not_found"
            /\ pc' = "done"
       ELSE /\ pc' = "o_mkdir"
            /\ UNCHANGED printed
    /\ UNCHANGED <<req, raised, raised_at, fsVars, audioVars, reverbVars,
                   overlayVars>>

\* lines 234-237
OverlayMkdir ==
    /\ pc = "o_mkdir"
    /\ subdir' = TRUE
    /\ pc' = "o_copy"
    /\ UNCHANGED <<req, errVars, copied, saved, audioVars, reverbVars,
                   overlayVars>>

\* lines 239-243
OverlayCopy ==
    /\ pc = "o_copy"
    /\ copied' = TRUE
    /\ pc' = "o_load"
    /\ UNCHANGED <<req, errVars, subdir, saved, audioVars, reverbVars,
                   overlayVars>>

\* lines 245-247
OverlayLoad ==
    /\ pc = "o_load"
    /\ \E d \in Buffers, r \in SampleRates :
          /\ input_audio' = d
          /\ data' = d
          /\ sr' = r
    /\ loaded' = TRUE
    /\ pc' = "o_load_overlay"
    /\ UNCHANGED <<req, errVars, fsVars, reverbVars, overlayVars>>

\* line 89: the overlay file, resampled to sr by librosa.load
OverlayLoadOverlay ==
    /\ pc = "o_load_overlay"
    /\ \E o \in Buffers :
          /\ overlay_file' = o
          /\ overlay_data' = o
    /\ pc' = "o_reconcile"
    /\ UNCHANGED <<req, errVars, fsVars, audioVars, reverbVars, mixed,
                   overlaid>>

\* lines 91-102
OverlayReconcile ==
    /\ pc = "o_reconcile"
    /\ LET rec == ReconcileLength(overlay_data, Len(data)) IN
       IF rec.raised # "none"
       THEN /\ Raise(rec.raised, "overlay")
            /\ UNCHANGED overlay_data
       ELSE /\ overlay_data' = rec.buf
            /\ pc' = "o_mix"
            /\ UNCHANGED errVars
    /\ UNCHANGED <<req, fsVars, audioVars, reverbVars, overlay_file, mixed,
                   overlaid>>

\* lines 104-108
OverlayMix ==
    /\ pc = "o_mix"
    /\ LET mix == ScaleAndMix(data, overlay_data, req.overlay_volume) IN
       IF mix.raised # "none"
       THEN /\ Raise(mix.raised, "overlay")
            /\ UNCHANGED mixed
       ELSE /\ mixed' = mix.num
            /\ pc' = "o_normalize"
            /\ UNCHANGED errVars
    /\ UNCHANGED <<req, fsVars, audioVars, reverbVars, overlay_file,
                   overlay_data, overlaid>>

\* lines 110-114
OverlayNormalize ==
    /\ pc = "o_normalize"
    /\ LET out == ClipNormalize(mixed) IN
       IF out.raised # "none"
       THEN /\ Raise(out.raised, "overlay")
            /\ UNCHANGED overlaid
       ELSE /\ overlaid' = [num |-> out.num, den |-> out.den]
            /\ pc' = "o_save"
            /\ UNCHANGED errVars
    /\ UNCHANGED <<req, fsVars, audioVars, reverbVars, overlay_file,
                   overlay_data, mixed>>

\* lines 253-257
OverlaySave ==
    /\ pc = "o_save"
    /\ saved' = saved @@
           ("overlay" :> [fn |-> "_overlay_audio", y |-> data, sr |-> sr,
                          arg |-> req.overlay_volume,
                          num |-> overlaid.num, den |-> overlaid.den])
    /\ data' = DataAfter(data)
    /\ pc' = "done"
    /\ UNCHANGED <<req, errVars, subdir, copied, loaded, input_audio, sr,
                   reverbVars, overlayVars>>

ApplyOverlay ==
    \/ OverlayCall
    \/ OverlayCheckOriginal
    \/ OverlayCheckOverlay
    \/ OverlayMkdir
    \/ OverlayCopy
    \/ OverlayLoad
    \/ OverlayLoadOverlay
    \/ OverlayReconcile
    \/ OverlayMix
    \/ OverlayNormalize
    \/ OverlaySave

Next == Process \/ ApplyOverlay

Spec == Init /\ [][Next]_vars

\* ------------------------------------------------------------- claims
TransformNames == {"pitch_up", "pitch_down", "speed_up", "speed_down", "reverb"}

ParamOf(r, k) ==
    CASE k = "pitch_up" -> r.pitch_increase
      [] k = "pitch_down" -> r.pitch_decrease
      [] k = "speed_up" -> r.speed_increase
      [] k = "speed_down" -> r.speed_decrease
      [] k = "reverb" -> r.reverb_room_size

ParamName(k) ==
    CASE k = "pitch_up" -> "pitch_increase"
      [] k = "pitch_down" -> "pitch_decrease"
      [] k = "speed_up" -> "speed_increase"
      [] k = "speed_down" -> "speed_decrease"
      [] k = "reverb" -> "reverb_room_size"

\* the documented domain of each parameter, written out
InDomain(k, v) ==
    CASE k = "pitch_up" -> v > 0
      [] k = "pitch_down" -> v < 0
      [] k = "speed_up" -> v > Den
      [] k = "speed_down" -> 0 < v /\ v < Den
      [] k = "reverb" -> 0 < v /\ v <= Den

OutOfDomain(r) ==
    \E k \in TransformNames :
        ~IsNone(ParamOf(r, k)) /\ ~InDomain(k, Val(ParamOf(r, k)))

NothingCreated ==
    /\ ~subdir
    /\ ~copied
    /\ ~loaded
    /\ ~impulse_built
    /\ saved = <<>>

\* C1: in a process call on an existing file, when one transformation fails
\* (its parameter is rejected, or it raises), every other requested
\* transformation whose own parameter is valid has still produced its
\* artifact when the call ends.
C1_SiblingsComplete ==
    (pc = "done" /\ req.op = "process" /\ req.input_exists)
        => \A k \in TransformNames :
              ( /\ ~IsNone(ParamOf(req, k))
                /\ InDomain(k, Val(ParamOf(req, k)))
                /\ raised_at \notin {k, ParamName(k)} )
              => k \in DOMAIN saved

SourceMissing ==
    \/ req.op = "process" /\ ~req.input_exists
    \/ req.op = "apply_overlay" /\ (~req.input_exists \/ ~req.overlay_exists)

\* C2: when the input file of process, or the original or the overlay file
\* of apply_overlay, does not exist, nothing is loaded, no transformation
\* runs and nothing is created, whatever the other arguments are; the call
\* ends after the not-found message, without an exception.
C2_MissingSourceFatal ==
    SourceMissing =>
        /\ NothingCreated
        /\ overlay_file = <<>> /\ mixed = <<>>
        /\ raised = "none"
        /\ pc \in {"p_exists", "o_exists", "o_exists_overlay", "done"}
        /\ pc = "done" => printed = "not_found"

C2_Witness ==
    /\ pc = "done"
    /\ req.op = "apply_overlay"
    /\ req.input_exists
    /\ ~req.overlay_exists
    /\ printed = "not_found"

\* C3 as stated: every process call with a parameter outside its domain
\* ends with the rejection error, and nothing was loaded, computed or
\* written.
C3_EveryBadParamRejected ==
    (pc = "done" /\ req.op = "process" /\ OutOfDomain(req))
        => (raised = "AssertionError" /\ NothingCreated)

\* C3 amended: in a process call whose input file exists, a parameter
\* outside its domain is rejected by an AssertionError naming the first such
\* parameter; up to and at the rejection nothing is loaded, computed or
\* written, so the value reaches no transform and is not skipped silently.
\* When the input file is missing the call ends on the not-found message
\* without rejecting the parameter.
C3_BadParamRejectedWhenInputExists ==
    (req.op = "process" /\ OutOfDomain(req)) =>
        /\ NothingCreated
        /\ pc \in {"p_exists", "p_validate", "done"}
        /\ (pc = "done" /\ req.input_exists) =>
              /\ raised = "AssertionError"
              /\ \E k \in TransformNames :
                    /\ raised_at = ParamName(k)
                    /\ ~IsNone(ParamOf(req, k))
                    /\ ~InDomain(k, Val(ParamOf(req, k)))
        /\ (pc = "done" /\ ~req.input_exists) =>
              /\ raised = "none"
              /\ printed = "not_found"

C3_Witness ==
    /\ pc = "done"
    /\ req.op = "process"
    /\ req.input_exists
    /\ req.pitch_increase = Some(0)
    /\ req.speed_increase = Some(Den + 1)
    /\ raised = "AssertionError"
    /\ raised_at = "pitch_increase"

\* _overlay_audio has been entered in this call and has returned or raised
OverlayReturned ==
    /\ req.op = "apply_overlay"
    /\ loaded
    /\ pc \in {"o_save", "done"}

\* C4 as stated: for every primary and secondary buffer, empty ones
\* included, the overlay returns a buffer as long as the primary.
C4_LengthAlways ==
    OverlayReturned =>
        /\ raised = "none"
        /\ Len(overlaid.num) = Len(input_audio)

\* C4 amended: for every non-empty primary and every non-empty secondary
\* (shorter, equal or longer, length 1 included) the overlay returns a
\* buffer as long as the primary; when the primary or the secondary is empty
\* it raises (ZeroDivisionError or ValueError) and returns no buffer.
C4_LengthWhenNonEmpty ==
    OverlayReturned =>
        IF Len(input_audio) > 0 /\ Len(overlay_file) > 0
        THEN /\ raised = "none"
             /\ Len(overlaid.num) = Len(input_audio)
             /\ pc = "done" =>
                   /\ "overlay" \in DOMAIN saved
                   /\ Len(saved["overlay"].num) = Len(input_audio)
        ELSE /\ raised \in {"ZeroDivisionError", "ValueError"}
             /\ saved = <<>>

C4_Witness ==
    /\ OverlayReturned
    /\ pc = "done"
    /\ Len(input_audio) = 1
    /\ Len(overlay_file) > 1
    /\ "overlay" \in DOMAIN saved
    /\ Len(saved["overlay"].num) = 1

\* C5: when 0 < Ls < Lp, the overlay used for mixing has Lp samples, its
\* sample i is secondary[i mod Ls] (each repetition restarts at the start of
\* the secondary, the last one is cut at Lp), and ceil(Lp / Ls) repetitions
\* hold at least Lp samples.
C5_LoopedOverlay ==
    ( /\ req.op = "apply_overlay"
      /\ loaded
      /\ pc \in {"o_mix", "o_normalize", "o_save", "done"}
      /\ 0 < Len(overlay_file)
      /\ Len(overlay_file) < Len(input_audio) )
    => LET Ls == Len(overlay_file)
           Lp == Len(input_audio) IN
       /\ Len(overlay_data) = Lp
       /\ \A i \in 0..(Lp - 1) : overlay_data[i + 1] = overlay_file[(i % Ls) + 1]
       /\ NumRepeats(Lp, Ls) * Ls >= Lp
       /\ (NumRepeats(Lp, Ls) - 1) * Ls < Lp

C5_Witness ==
    /\ req.op = "apply_overlay"
    /\ pc = "o_mix"
    /\ Len(input_audio) = 3
    /\ overlay_file = <<1, -1>>
    /\ overlay_data = <<1, -1, 1>>

\* C6: with mixed[i] = primary[i] + secondary[i] * volumeRatio, the overlay
\* returns mixed unchanged when its peak is at most 1.0 (1.0 and 0
\* included), and mixed divided by its peak otherwise: the output peak is
\* then exactly 1.0 and every sample keeps its sign and its ratio to the
\* others.
C6_NormalizeOnlyOnClipping ==
    (OverlayReturned /\ raised = "none") =>
        LET peak == PeakAbs(mixed) IN
        /\ Len(mixed) = Len(input_audio)
        /\ \A i \in 1..Len(mixed) :
              mixed[i] = input_audio[i] * Den + overlay_data[i] * req.overlay_volume
        /\ Len(overlaid.num) = Len(mixed)
        /\ overlaid.den > 0
        /\ IF peak <= Den
           THEN \A i \in 1..Len(mixed) :
                   overlaid.num[i] * Den = mixed[i] * overlaid.den
           ELSE /\ \A i \in 1..Len(mixed) :
                      overlaid.num[i] * peak = mixed[i] * overlaid.den
                /\ PeakAbs(overlaid.num) = overlaid.den
        /\ pc = "done" =>
              /\ saved["overlay"].num = overlaid.num
              /\ saved["overlay"].den = overlaid.den

C6_Witness ==
    /\ OverlayReturned
    /\ pc = "done"
    /\ raised = "none"
    /\ PeakAbs(mixed) > Den
    /\ \E i \in 1..Len(mixed) : mixed[i] < 0 /\ Abs(mixed[i]) < PeakAbs(mixed)
    /\ overlaid.den = PeakAbs(mixed)

\* C7: no buffer holding NaN or Inf is returned by the reverb or handed to
\* the save step: a zero peak is rejected before the division.
C7_ZeroPeakGuarded ==
    "reverb" \in DOMAIN saved => ~NonFinite(saved["reverb"])

\* C8: in a process call every transformation that runs is given the buffer
\* that was loaded, the loaded buffer is the same after each transformation,
\* and each artifact is the result of its own transformation on the loaded
\* buffer with its own parameter (and, for the reverb, the impulse drawn),
\* whatever else was requested.
C8_NeverChained ==
    (req.op = "process" /\ loaded) =>
        /\ data = input_audio
        /\ \A k \in DOMAIN saved :
              /\ saved[k].y = input_audio
              /\ saved[k].sr = sr
              /\ saved[k].arg = Val(ParamOf(req, k))
              /\ saved[k].fn =
                    (CASE k \in {"pitch_up", "pitch_down"} -> "pitch_shift"
                       [] k \in {"speed_up", "speed_down"} -> "time_stretch"
                       [] k = "reverb" -> "_apply_reverb")
        /\ "reverb" \in DOMAIN saved =>
              LET out == ApplyReverb(input_audio, sr,
                                     Val(req.reverb_room_size),
                                     saved["reverb"].impulse) IN
              /\ saved["reverb"].num = out.num
              /\ saved["reverb"].den = out.den

C8_Witness ==
    /\ pc = "done"
    /\ req.op = "process"
    /\ DOMAIN saved = TransformNames
    /\ Len(input_audio) = MaxLen
    /\ \A i \in 1..Len(input_audio) : input_audio[i] # 0

\* _apply_reverb was called in this call and has returned or raised
ReverbReturned ==
    /\ req.op = "process"
    /\ impulse_built
    /\ pc = "done"

\* C9 as stated: for every dry buffer, sample rate and room size the reverb
\* returns a buffer as long as the dry buffer.
C9_LengthAlways ==
    ReverbReturned =>
        /\ "reverb" \in DOMAIN saved
        /\ Len(saved["reverb"].num) = Len(input_audio)

\* C9 amended: for every non-empty dry buffer and every room size and sample
\* rate with floor(roomSize * 2.0 * sampleRate) >= 1, whether that length is
\* shorter than, equal to or longer than the dry buffer, the reverb returns
\* a buffer as long as the dry buffer; for an empty dry buffer or an impulse
\* length of 0 it raises ValueError and returns no buffer.
C9_LengthWhenNonEmpty ==
    ReverbReturned =>
        /\ Len(impulse) * Den <= Val(req.reverb_room_size) * 2 * sr
        /\ (Len(impulse) + 1) * Den > Val(req.reverb_room_size) * 2 * sr
        /\ IF Len(input_audio) > 0 /\ Len(impulse) >= 1
           THEN /\ raised = "none"
                /\ "reverb" \in DOMAIN saved
                /\ Len(saved["reverb"].num) = Len(input_audio)
           ELSE /\ raised = "ValueError"
                /\ "reverb" \notin DOMAIN saved

C9_Witness ==
    /\ ReverbReturned
    /\ "reverb" \in DOMAIN saved
    /\ Len(impulse) > Len(input_audio)
    /\ Len(input_audio) >= 2
    /\ Len(saved["reverb"].num) = Len(input_audio)

\* C10: no impulse response of length 0 or 1 is ever built: a room size
\* with floor(roomSize * 2.0 * sampleRate) < 2 is refused before.
C10_ShortImpulseRejected ==
    impulse_built => Len(impulse) >= 2

====
